---- MODULE Spec2Model ----
(***************************************************************************)
(* The MMARIA / SIMONe plot publisher (mmaria_simone_webapp.py): the scan  *)
(* tick (incoming -> current -> archive -> catalog, then the old-incoming  *)
(* sweep), the catalog upsert and the /search query.                       *)
(*                                                                         *)
(* Files are records [mtime, content]; a directory is a function whose     *)
(* domain is the set of paths that exist.  Text (country, station, query   *)
(* strings) is a sequence of tokens, " " being a whitespace token, so that *)
(* str.strip() is computed and not assumed.  A date is the number of the   *)
(* UTC day; DateStr renders it as the catalog's YYYY-MM-DD text.           *)
(***************************************************************************)
EXTENDS Integers, Sequences, FiniteSets, TLC

(* ------------------------------ bounds --------------------------------- *)
\* modification times are 0 .. MaxTime
MaxTime == 2
\* model seconds per UTC day (86400 in reality): day = mtime \div DayLen
DayLen == 2
\* file-system changes made by the outside world (producer, backfill drops)
MaxWrites == 3
\* scan ticks started
MaxTicks == 2
\* I/O faults (copy error, catalog-write error, stat error) injected
MaxFaults == 1
\* files present when two overlapping scans start
MaxFiles == 2
\* the stations whose directories receive files are STATIONS[1 .. Producers]
Producers == 2

(* ------------------------- station registry ---------------------------- *)
\* STATIONS, three of the seven entries (one per country of the search example)
STATIONS ==
  << [key |-> "mmaria_scandinavia", country |-> <<"Norway">>,
      station |-> <<"MMARIA", " ", "Scandinavia">>,
      incoming_filename |-> "multilink_overview_mmaria-norway.png"],
     [key |-> "mmaria_germany", country |-> <<"Germany">>,
      station |-> <<"MMARIA", " ", "Germany">>,
      incoming_filename |-> "multilink_overview_mmaria-germany.png"],
     [key |-> "simone_piura", country |-> <<"Peru">>,
      station |-> <<"SIMONe", " ", "Piura">>,
      incoming_filename |-> "multilink_overview_simone-peru2.png"] >>

StationIdx == 1 .. Len(STATIONS)
Keys == { STATIONS[i].key : i \in StationIdx }

\* names a file dropped into old incoming/<key>/ may have: the station's own
\* image name, another PNG name, and a name glob("*.png") does not match
OldNames(i) == { STATIONS[i].incoming_filename, "backfill.png", "notes.txt" }

IsPng(name) == name # "notes.txt"

Times == 0 .. MaxTime

\* the stations the outside world writes to
Fed == { i \in StationIdx : i <= Producers }

VARIABLES
  incoming,   \* key -> file            incoming/<key>/<incoming_filename>
  current,    \* key -> file            current/<key>/latest.png
  archive,    \* <<key, day, name>> -> file   archive/<key>/YYYY/MM/DD/<name>
  old,        \* <<key, name>> -> file  old incoming/<key>/<name>
  catalog,    \* set of rows of table archive_images
  status,     \* how the last scan ended: "none" (never ran), "done", "aborted"
  created,    \* scan_cmd's list created (infos of the stations mirrored)
  sweeps,     \* station index -> [ret, log] of its sweep in the last scan
  visited,    \* station indexes whose mirror_current_and_archive was called
  seen,       \* key -> incoming file the last completed scan found (history)
  clean,      \* scans that ended "done" without a fault, in a row, with no
              \* outside change between them (history)
  errs,       \* exceptions raised in the last scan (propagated or logged)
  nwrites, nticks, nfaults,
  reply,      \* the /search requests served: <<>> or <<[args, results]>>
  procs,      \* overlapping scans: process -> its position and local values
  issued      \* <<process, row>> for every upsert executed (history)

vars == << incoming, current, archive, old, catalog, status, created, sweeps,
           visited, seen, clean, errs, nwrites, nticks, nfaults, reply,
           procs, issued >>

(* ------------------------------ helpers -------------------------------- *)
\* utc_date_from_mtime: the UTC day of a file's modification time
utc_date_from_mtime(f) == f.mtime \div DayLen

\* archive_dst.relative_to(DATA_DIR): archive/<key>/<YYYY>/<MM>/<DD>/<name>
ArchivePath(key, day, name) == << "archive", key, day, name >>

\* the rows holding (station_key, date)
RowsFor(cat, key, day) == { r \in cat : r.station_key = key /\ r.date = day }

\* AUTOINCREMENT: one more than the largest id used (rows are never deleted)
NextId(cat) ==
  IF cat = {} THEN 1
  ELSE (CHOOSE m \in { r.id : r \in cat } : \A r \in cat : r.id <= m) + 1

\* INSERT without a conflict clause, with no UNIQUE(station_key, date) to stop it
InsertAlways(cat, rec) ==
  [cat |-> cat \cup { [id |-> NextId(cat)] @@ rec }, err |-> "none"]

\* plain INSERT under UNIQUE(station_key, date): a second row is refused
InsertOrRaise(cat, rec) ==
  IF RowsFor(cat, rec.station_key, rec.date) # {}
  THEN [cat |-> cat, err |-> "IntegrityError"]
  ELSE [cat |-> cat \cup { [id |-> NextId(cat)] @@ rec }, err |-> "none"]

\* an upsert whose DO UPDATE SET lists file_path alone
UpsertPathOnly(cat, rec) ==
  IF RowsFor(cat, rec.station_key, rec.date) # {}
  THEN [cat |-> { IF r.station_key = rec.station_key /\ r.date = rec.date
                  THEN [r EXCEPT !.file_path = rec.file_path]
                  ELSE r : r \in cat },
        err |-> "none"]
  ELSE [cat |-> cat \cup { [id |-> NextId(cat)] @@ rec }, err |-> "none"]

\* INSERT ... ON CONFLICT(station_key, date) DO UPDATE SET image_name, country,
\* station, file_path: one atomic statement in autocommit mode
Upsert(cat, rec) ==
  IF RowsFor(cat, rec.station_key, rec.date) # {}
  THEN [cat |-> { IF r.station_key = rec.station_key /\ r.date = rec.date
                  THEN [r EXCEPT !.image_name = rec.image_name,
                                 !.country = rec.country,
                                 !.station = rec.station,
                                 !.file_path = rec.file_path]
                  ELSE r : r \in cat },
        err |-> "none"]
  ELSE [cat |-> cat \cup { [id |-> NextId(cat)] @@ rec }, err |-> "none"]

\* the parameters _archive_file binds to the INSERT
Row(i, day, name) ==
  [image_name |-> name, country |-> STATIONS[i].country,
   station |-> STATIONS[i].station, date |-> day,
   station_key |-> STATIONS[i].key,
   file_path |-> ArchivePath(STATIONS[i].key, day, name)]

\* an _archive_file that writes the catalog before it copies into the archive
ArchiveFileUpsertFirst(arch, cat, i, name, src, fault) ==
  LET key == STATIONS[i].key
      day == utc_date_from_mtime(src)
      arch2 == (<<key, day, name>> :> src) @@ arch
      up == Upsert(cat, Row(i, day, name))
  IN  IF fault = "db" \/ up.err # "none"
      THEN [arch |-> arch, cat |-> cat, raised |-> TRUE, info |-> <<>>]
      ELSE IF fault = "copy"
      THEN [arch |-> arch, cat |-> up.cat, raised |-> TRUE, info |-> <<>>]
      ELSE [arch |-> arch2, cat |-> up.cat, raised |-> FALSE,
            info |-> << [key |-> key, date |-> day,
                         archive |-> ArchivePath(key, day, name)] >>]

\* _archive_file(src, station_cfg) on archive arch and catalog cat; src is the
\* file named name (src.exists() held).  fault: "none", "copy" (shutil.copy2
\* raises before the destination is written) or "db" (db.execute raises).
ArchiveFile(arch, cat, i, name, src, fault) ==
  LET key == STATIONS[i].key
      day == utc_date_from_mtime(src)
      arch2 == (<<key, day, name>> :> src) @@ arch
      up == Upsert(cat, Row(i, day, name))
  IN  IF fault = "copy"
      THEN [arch |-> arch, cat |-> cat, raised |-> TRUE, info |-> <<>>]
      ELSE IF fault = "db" \/ up.err # "none"
      THEN [arch |-> arch2, cat |-> cat, raised |-> TRUE, info |-> <<>>]
      ELSE [arch |-> arch2, cat |-> up.cat, raised |-> FALSE,
            info |-> << [key |-> key, date |-> day,
                         archive |-> ArchivePath(key, day, name)] >>]

\* a comparison that also promotes a file of equal mtime
IsNewerOrEqual(src, cur, hasCur, statFails) ==
  IF ~hasCur THEN TRUE
  ELSE IF statFails THEN FALSE
  ELSE src.mtime >= cur.mtime

\* _is_newer_than_current: TRUE without a current file; FALSE when stat raises
IsNewerThanCurrent(src, cur, hasCur, statFails) ==
  IF ~hasCur THEN TRUE
  ELSE IF statFails THEN FALSE
  ELSE src.mtime > cur.mtime

(* ------------------------------ faults --------------------------------- *)
\* An I/O fault is a place of the scan where a call raises: in the mirror of
\* station i ("stat": src.stat()/current_dst.stat() in _is_newer_than_current,
\* "copycur": shutil.copy2 to current, "copy"/"db": inside _archive_file), or
\* in the sweep of station i at file name ("copy"/"db" inside _archive_file).
MirrorSpots ==
  { [at |-> "mirror", i |-> i, name |-> "", kind |-> k] :
      i \in StationIdx, k \in {"stat", "copycur", "copy", "db"} }

SweepSpots ==
  UNION { { [at |-> "sweep", i |-> i, name |-> n, kind |-> k] :
              n \in { m \in OldNames(i) : IsPng(m) }, k \in {"copy", "db"} } :
          i \in StationIdx }

RECURSIVE FaultSets(_)
\* the sets of at most k faults, no two at the same place
FaultSets(k) ==
  IF k = 0 THEN { {} }
  ELSE LET smaller == FaultSets(k - 1)
           Free(F) == { y \in MirrorSpots \cup SweepSpots :
                          \A z \in F : ~(z.at = y.at /\ z.i = y.i
                                         /\ z.name = y.name) }
       IN  smaller \cup UNION { { F \cup {x} : x \in Free(F) } : F \in smaller }

FaultAt(F, at, i, name) ==
  LET hit == { x \in F : x.at = at /\ x.i = i /\ x.name = name }
  IN  IF hit = {} THEN "none" ELSE (CHOOSE x \in hit : TRUE).kind

(* ------------------------------ mirror --------------------------------- *)
\* mirror_current_and_archive(station_cfg) on world w = [current, archive,
\* catalog, old]: the new world, whether an exception left the function, the
\* info returned (<<>> for None) and whether the fault was met.
mirror_current_and_archive(inc, w, i, fault) ==
  LET key == STATIONS[i].key
      name == STATIONS[i].incoming_filename
      exists == key \in DOMAIN inc
      src == inc[key]
      hasCur == key \in DOMAIN w.current
      newer == IsNewerThanCurrent(src, IF hasCur THEN w.current[key] ELSE src,
                                  hasCur, fault = "stat")
      cur2 == IF newer /\ fault # "copycur"
              THEN (key :> src) @@ w.current ELSE w.current
      a == ArchiveFile(w.archive, w.catalog, i, name, src,
                       IF fault \in {"copy", "db"} THEN fault ELSE "none")
  IN  IF ~exists
      THEN [w |-> w, raised |-> FALSE, info |-> <<>>, met |-> FALSE]
      ELSE IF newer /\ fault = "copycur"
      THEN [w |-> w, raised |-> TRUE, info |-> <<>>, met |-> TRUE]
      ELSE [w |-> [w EXCEPT !.current = cur2, !.archive = a.arch,
                            !.catalog = a.cat],
            raised |-> a.raised, info |-> a.info,
            met |-> CASE fault = "none" -> FALSE
                      [] fault = "stat" -> hasCur
                      [] fault = "copycur" -> FALSE
                      [] OTHER -> TRUE]

(* ------------------------------- sweep --------------------------------- *)
\* the PNG names present in old incoming/<key>/
Pngs(o, i) ==
  { n \in OldNames(i) : IsPng(n) /\ <<STATIONS[i].key, n>> \in DOMAIN o }

RECURSIVE ReverseOrders(_, _, _)
\* the listing taken by descending mtime
ReverseOrders(o, i, names) ==
  IF names = {} THEN { <<>> }
  ELSE UNION { { <<n>> \o rest : rest \in ReverseOrders(o, i, names \ {n}) } :
               n \in { m \in names :
                         \A x \in names :
                            o[<<STATIONS[i].key, m>>].mtime
                              >= o[<<STATIONS[i].key, x>>].mtime } }

RECURSIVE SortedOrders(_, _, _)
\* sorted(..., key=st_mtime): every listing of names by ascending mtime (the
\* order of files of equal mtime is the directory's, which is arbitrary)
SortedOrders(o, i, names) ==
  IF names = {} THEN { <<>> }
  ELSE UNION { { <<n>> \o rest : rest \in SortedOrders(o, i, names \ {n}) } :
               n \in { m \in names :
                         \A x \in names :
                            o[<<STATIONS[i].key, m>>].mtime
                              <= o[<<STATIONS[i].key, x>>].mtime } }

Remove(f, p) == [q \in (DOMAIN f) \ {p} |-> f[q]]

RECURSIVE SweepLoopBreak(_, _, _, _, _, _)
\* a loop that gives up at the first file whose archival fails
SweepLoopBreak(w, i, pngs, k, F, acc) ==
  IF k > Len(pngs) THEN [w |-> w, ret |-> acc.ret, log |-> acc.log, met |-> acc.met]
  ELSE LET n == pngs[k]
           p == <<STATIONS[i].key, n>>
           fault == FaultAt(F, "sweep", i, n)
           a == ArchiveFile(w.archive, w.catalog, i, n, w.old[p], fault)
       IN  IF a.raised
           THEN [w |-> [w EXCEPT !.archive = a.arch, !.catalog = a.cat],
                 ret |-> acc.ret, log |-> acc.log \cup {n},
                 met |-> acc.met + (IF fault = "none" THEN 0 ELSE 1)]
           ELSE SweepLoopBreak([w EXCEPT !.archive = a.arch, !.catalog = a.cat,
                                         !.old = Remove(w.old, p)],
                               i, pngs, k + 1, F,
                               [acc EXCEPT !.ret = @ \o a.info])

RECURSIVE SweepLoop(_, _, _, _, _, _)
\* the for loop of archive_only_from_old_incoming from position k of pngs
SweepLoop(w, i, pngs, k, F, acc) ==
  IF k > Len(pngs) THEN [w |-> w, ret |-> acc.ret, log |-> acc.log, met |-> acc.met]
  ELSE LET n == pngs[k]
           p == <<STATIONS[i].key, n>>
           fault == FaultAt(F, "sweep", i, n)
           a == ArchiveFile(w.archive, w.catalog, i, n, w.old[p], fault)
       IN  IF a.raised
           THEN SweepLoop([w EXCEPT !.archive = a.arch, !.catalog = a.cat],
                          i, pngs, k + 1, F,
                          [acc EXCEPT !.log = @ \cup {n},
                                      !.met = @ + (IF fault = "none" THEN 0 ELSE 1)])
           ELSE SweepLoop([w EXCEPT !.archive = a.arch, !.catalog = a.cat,
                                    !.old = Remove(w.old, p)],
                          i, pngs, k + 1, F,
                          [acc EXCEPT !.ret = @ \o a.info])

\* archive_only_from_old_incoming(station_cfg), the files listed as pngs
archive_only_from_old_incoming(w, i, pngs, F) ==
  SweepLoop(w, i, pngs, 1, F, [ret |-> <<>>, log |-> {}, met |-> 0])

(* ------------------------------- scan ---------------------------------- *)
RECURSIVE MirrorAll(_, _, _, _, _)
\* scan_cmd, loop 1: mirror_current_and_archive for every station in order;
\* an exception leaves the loop and the command
MirrorAll(inc, w, i, F, acc) ==
  IF i > Len(STATIONS) THEN [w |-> w, raised |-> FALSE, acc |-> acc]
  ELSE LET fault == FaultAt(F, "mirror", i, "")
           m == mirror_current_and_archive(inc, w, i, fault)
           acc2 == [acc EXCEPT !.created = @ \o m.info,
                               !.visited = @ \cup {i},
                               !.met = @ + (IF m.met THEN 1 ELSE 0)]
       IN  IF m.raised THEN [w |-> m.w, raised |-> TRUE, acc |-> acc2]
           ELSE MirrorAll(inc, m.w, i + 1, F, acc2)

RECURSIVE SweepAll(_, _, _, _, _)
\* scan_cmd, loop 2: archive_only_from_old_incoming for every station in order
SweepAll(w, i, ord, F, acc) ==
  IF i > Len(STATIONS) THEN [w |-> w, acc |-> acc]
  ELSE LET r == archive_only_from_old_incoming(w, i, ord[i], F)
       IN  SweepAll(r.w, i + 1, ord, F,
                    [acc EXCEPT !.sweeps = Append(@, [ret |-> r.ret, log |-> r.log]),
                                !.met = @ + r.met,
                                !.errs = @ + Cardinality(r.log)])

\* scan_cmd after loop 1 ended as m: an exception ends the command, otherwise
\* loop 2 runs
AfterMirror(m, ord, F) ==
  IF m.raised
  THEN [w |-> m.w, status |-> "aborted", acc |-> [m.acc EXCEPT !.errs = 1]]
  ELSE [status |-> "done"] @@ SweepAll(m.w, 1, ord, F, m.acc)

\* scan_cmd: both loops; ord[i] is the sorted listing of station i's sweep
scan_cmd(inc, w, ord, F) ==
  AfterMirror(MirrorAll(inc, w, 1, F,
                        [created |-> <<>>, visited |-> {}, sweeps |-> <<>>,
                         met |-> 0, errs |-> 0]),
              ord, F)

World == [current |-> current, archive |-> archive, catalog |-> catalog,
          old |-> old]

\* the listings the sweeps of one scan may see
Orders(o) ==
  { ord \in [StationIdx -> UNION { SortedOrders(o, i, Pngs(o, i)) : i \in StationIdx }] :
      \A i \in StationIdx : ord[i] \in SortedOrders(o, i, Pngs(o, i)) }

(* ------------------------------ actions -------------------------------- *)
Init ==
  /\ incoming = <<>> /\ current = <<>> /\ archive = <<>> /\ old = <<>>
  /\ catalog = {}
  /\ status = "none" /\ created = <<>> /\ sweeps = <<>> /\ visited = {}
  /\ seen = <<>> /\ clean = 0 /\ errs = 0
  /\ nwrites = 0 /\ nticks = 0 /\ nfaults = 0
  /\ reply = <<>>
  /\ procs = <<>> /\ issued = {}

\* a file written at path p of directory dir with mtime t: its content differs
\* from the content of the file it replaces
NewFile(dir, p, t) ==
  [mtime |-> t, content |-> IF p \in DOMAIN dir THEN 1 - dir[p].content ELSE 0]

Outside == /\ nwrites < MaxWrites
           /\ nwrites' = nwrites + 1
           /\ clean' = 0
           /\ UNCHANGED << current, archive, catalog, status, created, sweeps,
                           visited, seen, errs, nticks, nfaults, reply,
                           procs, issued >>

\* the producer overwrites incoming/<key>/<incoming_filename>
WriteIncoming ==
  \E i \in Fed, t \in Times :
    /\ Outside
    /\ incoming' = (STATIONS[i].key :> NewFile(incoming, STATIONS[i].key, t))
                     @@ incoming
    /\ old' = old

\* incoming is empty between two writes of the producer
RemoveIncoming ==
  \E i \in StationIdx :
    /\ STATIONS[i].key \in DOMAIN incoming
    /\ Outside
    /\ incoming' = Remove(incoming, STATIONS[i].key)
    /\ old' = old

\* a file is handed in later through old incoming/<key>/
WriteOld ==
  \E i \in Fed, t \in Times : \E n \in OldNames(i) :
    /\ Outside
    /\ old' = (<<STATIONS[i].key, n>> :> NewFile(old, <<STATIONS[i].key, n>>, t))
                @@ old
    /\ incoming' = incoming

\* the state scan_cmd leaves when it ended as r, having met the faults F
Commit(r, F) ==
  /\ r.acc.met = Cardinality(F)
  /\ current' = r.w.current
  /\ archive' = r.w.archive
  /\ catalog' = r.w.catalog
  /\ old' = r.w.old
  /\ status' = r.status
  /\ created' = r.acc.created
  /\ sweeps' = r.acc.sweeps
  /\ visited' = r.acc.visited
  /\ errs' = r.acc.errs
  /\ seen' = IF r.status = "done" THEN incoming ELSE <<>>
  /\ clean' = IF r.status = "done" /\ F = {} THEN clean + 1 ELSE 0
  /\ nfaults' = nfaults + Cardinality(F)

\* one run of the scan command
Scan ==
  /\ nticks < MaxTicks
  /\ \E F \in FaultSets(MaxFaults - nfaults), ord \in Orders(old) :
       Commit(scan_cmd(incoming, World, ord, F), F)
  /\ nticks' = nticks + 1
  /\ UNCHANGED << incoming, nwrites, reply, procs, issued >>

Next == WriteIncoming \/ RemoveIncoming \/ WriteOld \/ Scan

Spec == Init /\ [][Next]_vars

(* ------------------------------ search -------------------------------- *)
Days == 0 .. (MaxTime \div DayLen)

\* strftime("%Y-%m-%d") of day d, as a one-token text
DateStr(d) == << "1970-01-0" \o ToString(d + 1) >>

RECURSIVE LStrip(_)
\* str.lstrip(): leading whitespace tokens removed
LStrip(t) == IF t # <<>> /\ Head(t) = " " THEN LStrip(Tail(t)) ELSE t

RECURSIVE RStrip(_)
RStrip(t) ==
  IF t # <<>> /\ t[Len(t)] = " " THEN RStrip(SubSeq(t, 1, Len(t) - 1)) ELSE t

\* str.strip()
Strip(t) == RStrip(LStrip(t))

\* request.args.get(name, '')
ArgsGet(args, name) == IF name \in DOMAIN args THEN args[name] ELSE <<>>

\* byte order of the tokens of the station names (BINARY collation)
TokenRank(tok) ==
  CASE tok = " " -> 0
    [] tok = "Germany" -> 1
    [] tok = "MMARIA" -> 2
    [] tok = "Piura" -> 3
    [] tok = "SIMONe" -> 4
    [] tok = "Scandinavia" -> 5

RECURSIVE TextLess(_, _)
\* a < b for TEXT values
TextLess(a, b) ==
  IF b = <<>> THEN FALSE
  ELSE IF a = <<>> THEN TRUE
  ELSE IF Head(a) = Head(b) THEN TextLess(Tail(a), Tail(b))
  ELSE TokenRank(Head(a)) < TokenRank(Head(b))

\* ORDER BY date ASC, station ASC
RowBeforeAsc(a, b) ==
  \/ a.date < b.date
  \/ a.date = b.date /\ TextLess(a.station, b.station)

\* ORDER BY date DESC, station ASC: row a sorts before row b
RowBefore(a, b) ==
  \/ a.date > b.date
  \/ a.date = b.date /\ TextLess(a.station, b.station)

RECURSIVE OrderBy(_)
\* the rows in the order of the ORDER BY clause (rows that compare equal come
\* in an order SQL leaves open)
OrderBy(rows) ==
  IF rows = {} THEN <<>>
  ELSE LET first == CHOOSE r \in rows : \A x \in rows : ~RowBefore(x, r)
       IN  <<first>> \o OrderBy(rows \ {first})

\* the WHERE clause search() builds from the stripped arguments
Where(r, q_country, q_station, q_date) ==
  /\ q_country # <<>> => r.country = q_country
  /\ q_station # <<>> => r.station = q_station
  /\ q_date # <<>> => DateStr(r.date) = q_date

\* SELECT image_name, country, station, date, file_path
Select(r) ==
  [image_name |-> r.image_name, country |-> r.country, station |-> r.station,
   date |-> r.date, file_path |-> r.file_path]

\* search(): the results list handed to the template
search(cat, args) ==
  LET q_country == Strip(ArgsGet(args, "country"))
      q_station == Strip(ArgsGet(args, "station"))
      q_date == Strip(ArgsGet(args, "date"))
  IN  OrderBy({ Select(r) : r \in { x \in cat : Where(x, q_country, q_station, q_date) } })

\* query strings a request may carry
CountryArgs == { <<>>, <<" ">>, <<"Peru">>, <<" ", "Peru", " ">>, <<"Norway">>,
                 <<"Chile">> }
StationArgs == { <<>>, <<"SIMONe", " ", "Piura">>,
                 <<"MMARIA", " ", "Germany", " ">>, <<"MMARIA">> }
DateArgs == { <<>>, <<" ", " ">> } \cup { DateStr(d) : d \in Days }
               \cup { <<" ">> \o DateStr(d) : d \in Days }

Requests ==
  UNION { { a \in [D -> CountryArgs \cup StationArgs \cup DateArgs] :
              /\ "country" \in D => a["country"] \in CountryArgs
              /\ "station" \in D => a["station"] \in StationArgs
              /\ "date" \in D => a["date"] \in DateArgs } :
          D \in SUBSET {"country", "station", "date"} }

RECURSIVE Insert(_, _)
\* the catalog after the upserts of the rows in list
Insert(cat, list) ==
  IF list = <<>> THEN cat ELSE Insert(Upsert(cat, Head(list)).cat, Tail(list))

RECURSIVE AsList(_)
AsList(S) ==
  IF S = {} THEN <<>>
  ELSE LET x == CHOOSE y \in S : TRUE IN <<x>> \o AsList(S \ {x})

\* the catalogs scans leave behind: for some station days, one record
Catalogs ==
  { Insert({}, AsList({ Row(k[1], k[2], STATIONS[k[1]].incoming_filename) : k \in K })) :
      K \in SUBSET (StationIdx \X Days) }

InitSearch ==
  /\ incoming = <<>> /\ current = <<>> /\ archive = <<>> /\ old = <<>>
  /\ catalog \in Catalogs
  /\ status = "none" /\ created = <<>> /\ sweeps = <<>> /\ visited = {}
  /\ seen = <<>> /\ clean = 0 /\ errs = 0
  /\ nwrites = 0 /\ nticks = 0 /\ nfaults = 0
  /\ reply = <<>>
  /\ procs = <<>> /\ issued = {}

\* GET /search
SearchReq ==
  /\ reply = <<>>
  /\ \E args \in Requests :
       reply' = << [args |-> args, results |-> search(catalog, args)] >>
  /\ UNCHANGED << incoming, current, archive, old, catalog, status, created,
                  sweeps, visited, seen, clean, errs, nwrites, nticks, nfaults,
                  procs, issued >>

NextSearch == SearchReq

SpecSearch == InitSearch /\ [][NextSearch]_vars

(* ------------------------- overlapping scans --------------------------- *)
\* Two scan commands run at once (a cron run starts while the one before is
\* still going).  Each system call and each SQL statement is one step:
\*   m_check  src.exists() and _is_newer_than_current   (lines 231-237)
\*   m_copy   shutil.copy2(src, current_dst)             (line 238)
\*   a_stat   src.exists() and utc_date_from_mtime(src)  (lines 171-174)
\*   a_copy   shutil.copy2(src, archive_dst)             (line 184)
\*   a_upsert db.execute(INSERT ... ON CONFLICT ...)     (lines 187-207)
\*   s_glob   src_dir.glob("*.png") with p.is_file()     (line 258)
\*   s_sort   sorted(..., key=p.stat().st_mtime)         (lines 258-259)
\*   s_unlink src.unlink(missing_ok=True)                (line 267)
Procs == {1, 2}

Proc0 == [pc |-> "m_check", i |-> 1, mode |-> "mirror", names |-> {},
          pngs |-> <<>>, k |-> 0, day |-> 0, err |-> {}]

\* the name of the file the process is archiving
SrcName(pr) ==
  IF pr.mode = "mirror" THEN STATIONS[pr.i].incoming_filename ELSE pr.pngs[pr.k]

SrcExists(pr) ==
  IF pr.mode = "mirror" THEN STATIONS[pr.i].key \in DOMAIN incoming
  ELSE <<STATIONS[pr.i].key, SrcName(pr)>> \in DOMAIN old

SrcFile(pr) ==
  IF pr.mode = "mirror" THEN incoming[STATIONS[pr.i].key]
  ELSE old[<<STATIONS[pr.i].key, SrcName(pr)>>]

\* scan_cmd goes on to the next station of loop 1, or to loop 2
NextMirror(pr) ==
  IF pr.i < Len(STATIONS) THEN [pr EXCEPT !.pc = "m_check", !.i = @ + 1]
  ELSE [pr EXCEPT !.pc = "s_glob", !.i = 1, !.mode = "sweep"]

\* scan_cmd goes on to the sweep of the next station, or ends
NextSweepStation(pr) ==
  IF pr.i < Len(STATIONS)
  THEN [pr EXCEPT !.pc = "s_glob", !.i = @ + 1, !.pngs = <<>>, !.k = 0,
                  !.names = {}]
  ELSE [pr EXCEPT !.pc = "done", !.pngs = <<>>, !.k = 0, !.names = {}]

\* the for loop of the sweep goes on to the next file
NextSweepFile(pr) ==
  IF pr.k < Len(pr.pngs) THEN [pr EXCEPT !.pc = "a_stat", !.k = @ + 1]
  ELSE NextSweepStation(pr)

\* _archive_file returned (ok) or raised e: the mirror returns or lets the
\* exception end the command; the sweep deletes the source or logs and goes on
Raised(pr, e) ==
  IF pr.mode = "mirror" THEN [pr EXCEPT !.pc = "aborted", !.err = @ \cup {e}]
  ELSE NextSweepFile([pr EXCEPT !.err = @ \cup {e}])

ConcFrame == UNCHANGED << status, created, sweeps, visited, seen, clean, errs,
                          nwrites, nticks, nfaults, reply, incoming >>

MCheck(p) ==
  LET pr == procs[p]
      key == STATIONS[pr.i].key
      hasCur == key \in DOMAIN current
  IN  /\ pr.pc = "m_check"
      /\ IF key \notin DOMAIN incoming
         THEN procs' = [procs EXCEPT ![p] = NextMirror(pr)]
         ELSE procs' = [procs EXCEPT ![p] =
                [pr EXCEPT !.pc =
                   IF IsNewerThanCurrent(incoming[key],
                        IF hasCur THEN current[key] ELSE incoming[key],
                        hasCur, FALSE)
                   THEN "m_copy" ELSE "a_stat"]]
      /\ UNCHANGED << current, archive, old, catalog, issued >>
      /\ ConcFrame

MCopy(p) ==
  LET pr == procs[p]
      key == STATIONS[pr.i].key
  IN  /\ pr.pc = "m_copy"
      /\ current' = (key :> incoming[key]) @@ current
      /\ procs' = [procs EXCEPT ![p] = [pr EXCEPT !.pc = "a_stat"]]
      /\ UNCHANGED << archive, old, catalog, issued >>
      /\ ConcFrame

AStat(p) ==
  LET pr == procs[p]
  IN  /\ pr.pc = "a_stat"
      /\ IF SrcExists(pr)
         THEN procs' = [procs EXCEPT ![p] =
                [pr EXCEPT !.pc = "a_copy", !.day = utc_date_from_mtime(SrcFile(pr))]]
         ELSE procs' = [procs EXCEPT ![p] =
                IF pr.mode = "mirror" THEN NextMirror(pr) ELSE NextSweepFile(pr)]
      /\ UNCHANGED << current, archive, old, catalog, issued >>
      /\ ConcFrame

ACopy(p) ==
  LET pr == procs[p]
      key == STATIONS[pr.i].key
  IN  /\ pr.pc = "a_copy"
      /\ IF SrcExists(pr)
         THEN /\ archive' = (<<key, pr.day, SrcName(pr)>> :> SrcFile(pr)) @@ archive
              /\ procs' = [procs EXCEPT ![p] = [pr EXCEPT !.pc = "a_upsert"]]
         ELSE /\ archive' = archive
              /\ procs' = [procs EXCEPT ![p] = Raised(pr, "FileNotFoundError")]
      /\ UNCHANGED << current, old, catalog, issued >>
      /\ ConcFrame

AUpsert(p) ==
  LET pr == procs[p]
      rec == Row(pr.i, pr.day, SrcName(pr))
      up == Upsert(catalog, rec)
  IN  /\ pr.pc = "a_upsert"
      /\ catalog' = up.cat
      /\ issued' = issued \cup { <<p, rec>> }
      /\ procs' = [procs EXCEPT ![p] =
           IF up.err # "none" THEN Raised(pr, up.err)
           ELSE IF pr.mode = "mirror" THEN NextMirror(pr)
           ELSE [pr EXCEPT !.pc = "s_unlink"]]
      /\ UNCHANGED << current, archive, old >>
      /\ ConcFrame

SGlob(p) ==
  LET pr == procs[p]
  IN  /\ pr.pc = "s_glob"
      /\ procs' = [procs EXCEPT ![p] =
           [pr EXCEPT !.pc = "s_sort", !.names = Pngs(old, pr.i)]]
      /\ UNCHANGED << current, archive, old, catalog, issued >>
      /\ ConcFrame

SSort(p) ==
  LET pr == procs[p]
  IN  /\ pr.pc = "s_sort"
      /\ IF pr.names \subseteq Pngs(old, pr.i)
         THEN \E ord \in SortedOrders(old, pr.i, pr.names) :
                procs' = [procs EXCEPT ![p] =
                  NextSweepFile([pr EXCEPT !.pngs = ord, !.k = 0])]
         ELSE \* p.stat() of a vanished file raises outside the try block
              procs' = [procs EXCEPT ![p] =
                [pr EXCEPT !.pc = "aborted", !.err = @ \cup {"FileNotFoundError"}]]
      /\ UNCHANGED << current, archive, old, catalog, issued >>
      /\ ConcFrame

SUnlink(p) ==
  LET pr == procs[p]
      path == <<STATIONS[pr.i].key, SrcName(pr)>>
  IN  /\ pr.pc = "s_unlink"
      /\ old' = IF path \in DOMAIN old THEN Remove(old, path) ELSE old
      /\ procs' = [procs EXCEPT ![p] = NextSweepFile(pr)]
      /\ UNCHANGED << current, archive, catalog, issued >>
      /\ ConcFrame

\* the slots the outside world fills: incoming files and old-incoming files
Slots ==
  { <<"incoming", i, STATIONS[i].incoming_filename>> : i \in Fed }
    \cup UNION { { <<"old", i, n>> : n \in OldNames(i) } : i \in Fed }

RECURSIVE SlotSets(_)
SlotSets(k) ==
  IF k = 0 THEN { {} }
  ELSE LET smaller == SlotSets(k - 1)
       IN  smaller \cup UNION { { S \cup {x} : x \in Slots \ S } : S \in smaller }

\* data directories holding at most MaxFiles files, the catalog still empty
InitConc ==
  /\ \E S \in SlotSets(MaxFiles) : \E mt \in [S -> Times] :
       /\ incoming = [key \in { STATIONS[x[2]].key : x \in { y \in S : y[1] = "incoming" } }
                        |-> LET x == CHOOSE y \in S :
                                       y[1] = "incoming" /\ STATIONS[y[2]].key = key
                            IN  [mtime |-> mt[x], content |-> 0]]
       /\ old = [path \in { <<STATIONS[x[2]].key, x[3]>> : x \in { y \in S : y[1] = "old" } }
                        |-> LET x == CHOOSE y \in S :
                                       /\ y[1] = "old"
                                       /\ <<STATIONS[y[2]].key, y[3]>> = path
                            IN  [mtime |-> mt[x], content |-> 1]]
  /\ current = <<>> /\ archive = <<>> /\ catalog = {}
  /\ status = "none" /\ created = <<>> /\ sweeps = <<>> /\ visited = {}
  /\ seen = <<>> /\ clean = 0 /\ errs = 0
  /\ nwrites = 0 /\ nticks = 0 /\ nfaults = 0
  /\ reply = <<>>
  /\ procs = [p \in Procs |-> Proc0] /\ issued = {}

NextConc ==
  \E p \in Procs :
    \/ MCheck(p) \/ MCopy(p) \/ AStat(p) \/ ACopy(p) \/ AUpsert(p)
    \/ SGlob(p) \/ SSort(p) \/ SUnlink(p)

SpecConc == InitConc /\ [][NextConc]_vars

(* --------------------------- claims on Spec --------------------------- *)
\* a step of Scan
ScanStep == nticks' = nticks + 1

RowOf(cat, key, day) == CHOOSE r \in RowsFor(cat, key, day) : TRUE

\* C1: the catalog holds at most one Archive Record for every (station key,
\* UTC day) pair, in every state scan ticks and outside changes can reach.
OneRecordPerStationDay ==
  \A r1, r2 \in catalog :
    (r1.station_key = r2.station_key /\ r1.date = r2.date) => r1 = r2

\* two files were archived for one station and day, and one record names one
OneRecordPerStationDay_witness ==
  \E r \in catalog : \E p \in DOMAIN archive :
    p[1] = r.station_key /\ p[2] = r.date /\ p[3] # r.image_name

\* C2 (as claimed): when a completed scan found incoming file f1 of station S,
\* the file was then replaced by f2 of the same UTC day D and the next scan
\* completes, the one record for (S, D) carries f2's name and archive path
\* (both updates have the configured name, so no differently named first file).
SecondUpdateWinsTheDay ==
  [][ \A i \in StationIdx :
        LET key == STATIONS[i].key
            name == STATIONS[i].incoming_filename
            day == utc_date_from_mtime(incoming[key])
        IN  ( /\ ScanStep /\ status' = "done"
              /\ key \in DOMAIN seen /\ key \in DOMAIN incoming
              /\ seen[key] # incoming[key]
              /\ utc_date_from_mtime(seen[key]) = day )
            => /\ Cardinality(RowsFor(catalog', key, day)) = 1
               /\ RowOf(catalog', key, day).image_name = name
               /\ RowOf(catalog', key, day).file_path = ArchivePath(key, day, name)
               /\ <<key, day, name>> \in DOMAIN archive'
    ]_vars

\* C3: the mtime of current/<key>/latest.png never decreases; an incoming file
\* whose mtime is not strictly greater than the current file's never replaces
\* it; and a file that is promoted is the incoming file with its mtime.
MirrorMonotonic ==
  [][ \A key \in Keys :
        /\ key \in DOMAIN current
             => /\ key \in DOMAIN current'
                /\ current'[key].mtime >= current[key].mtime
        /\ ( /\ key \in DOMAIN current /\ key \in DOMAIN incoming
             /\ incoming[key].mtime <= current[key].mtime )
             => current'[key] = current[key]
        /\ ( /\ key \in DOMAIN current'
             /\ (key \notin DOMAIN current \/ current'[key] # current[key]) )
             => /\ key \in DOMAIN incoming
                /\ current'[key] = incoming[key]
    ]_vars

\* a completed scan found an incoming file older than the current file, and
\* the current file is still the newer one
MirrorMonotonic_witness ==
  \E key \in Keys :
    /\ status = "done"
    /\ key \in DOMAIN seen /\ key \in DOMAIN incoming /\ key \in DOMAIN current
    /\ seen[key] = incoming[key]
    /\ incoming[key].mtime < current[key].mtime

\* C4: a scan that follows a fault-free completed scan with no outside change
\* in between, and meets no fault itself, leaves every current file
\* unchanged, creates no record and raises no error.
ScanIdempotent ==
  [][ (ScanStep /\ clean >= 1 /\ nfaults' = nfaults)
        => /\ current' = current
           /\ { <<r.station_key, r.date>> : r \in catalog' }
                = { <<r.station_key, r.date>> : r \in catalog }
           /\ Cardinality(catalog') = Cardinality(catalog)
           /\ status' = "done" /\ errs' = 0
    ]_vars

\* two clean scans in a row ran over a mirrored and archived file
ScanIdempotent_witness ==
  clean = 2 /\ catalog # {} /\ current # <<>>

\* the files of station i's old incoming directory on day d
OnDay(o, i, d) ==
  { n \in Pngs(o, i) : utc_date_from_mtime(o[<<STATIONS[i].key, n>>]) = d }

\* C5: a sweep over N PNG files in which no archival fails leaves none of them
\* in old incoming/<key>, returns N entries, and for every UTC day among them
\* the record for (key, day) names a file of the greatest mtime of that day.
BackfillDrains ==
  [][ ScanStep =>
        \A i \in 1 .. Len(sweeps') :
          sweeps'[i].log = {} =>
            /\ Pngs(old', i) = {}
            /\ Len(sweeps'[i].ret) = Cardinality(Pngs(old, i))
            /\ \A n \in Pngs(old, i) :
                 LET key == STATIONS[i].key
                     d == utc_date_from_mtime(old[<<key, n>>])
                     rows == RowsFor(catalog', key, d)
                 IN  /\ rows # {}
                     /\ \A r \in rows :
                          /\ r.image_name \in OnDay(old, i, d)
                          /\ \A m \in OnDay(old, i, d) :
                               old[<<key, m>>].mtime
                                 <= old[<<key, r.image_name>>].mtime
    ]_vars

\* a sweep without failure archived two files of one day
BackfillDrains_witness ==
  \E i \in 1 .. Len(sweeps) :
    /\ sweeps[i].log = {}
    /\ Len(sweeps[i].ret) = 2
    /\ sweeps[i].ret[1].date = sweeps[i].ret[2].date

\* C6 (as claimed): after a completed scan that found station S's incoming
\* file, of UTC day D, the record for (S, D) names that file and the archived
\* file at the record's path has its content, whatever old incoming/S held.
ArchiveReflectsIncoming ==
  [][ \A i \in StationIdx :
        LET key == STATIONS[i].key
            day == utc_date_from_mtime(incoming[key])
        IN  (ScanStep /\ status' = "done" /\ key \in DOMAIN incoming)
            => /\ RowsFor(catalog', key, day) # {}
               /\ \A r \in RowsFor(catalog', key, day) :
                    /\ r.image_name = STATIONS[i].incoming_filename
                    /\ <<key, day, r.image_name>> \in DOMAIN archive'
                    /\ archive'[<<key, day, r.image_name>>] = incoming[key]
    ]_vars

\* C7 (as claimed): a scan in which one station's mirroring or archiving
\* fails still calls mirror_current_and_archive for every station and runs
\* the sweep of every station.
ScanIsolatesStations ==
  status # "none" => (visited = StationIdx /\ Len(sweeps) = Len(STATIONS))

\* names of the files a sweep returned
Returned(ret) == { ret[k].archive[4] : k \in 1 .. Len(ret) }

\* C8: in a sweep, a file whose archival fails stays in old incoming and is
\* not returned (so the next sweep lists it again); every other PNG file is
\* archived, deleted and returned, in ascending order of mtime.
SweepFailuresPerFile ==
  [][ ScanStep =>
        \A i \in 1 .. Len(sweeps') :
          LET key == STATIONS[i].key
              P == Pngs(old, i)
              L == sweeps'[i].log
              R == sweeps'[i].ret
          IN  /\ L \subseteq P
              /\ Returned(R) = P \ L
              /\ Len(R) = Cardinality(P \ L)
              /\ Pngs(old', i) = L
              /\ \A n \in L : old'[<<key, n>>] = old[<<key, n>>]
              /\ \A n \in P \ L :
                   LET d == utc_date_from_mtime(old[<<key, n>>])
                   IN  /\ <<key, d, n>> \in DOMAIN archive'
                       /\ archive'[<<key, d, n>>] = old[<<key, n>>]
              /\ \A a, b \in 1 .. Len(R) :
                   a < b => old[<<key, R[a].archive[4]>>].mtime
                              <= old[<<key, R[b].archive[4]>>].mtime
    ]_vars

\* a sweep failed on one file and archived a file listed after it
SweepFailuresPerFile_witness ==
  \E i \in 1 .. Len(sweeps) :
    \E n \in sweeps[i].log : \E k \in 1 .. Len(sweeps[i].ret) :
      LET a == sweeps[i].ret[k].archive
      IN  archive[<<a[2], a[3], a[4]>>].mtime > old[<<STATIONS[i].key, n>>].mtime

(* ------------------------ claims on SpecSearch ------------------------- *)
\* the records the filters q_country, q_station, q_date select
Matching(cat, q_country, q_station, q_date) ==
  { r \in cat : /\ q_country # <<>> => r.country = q_country
                /\ q_station # <<>> => r.station = q_station
                /\ q_date # <<>> => DateStr(r.date) = q_date }

\* results lists every row of rows once, by day descending, then station
\* ascending
ListsInOrder(results, rows) ==
  /\ { results[k] : k \in 1 .. Len(results) } = { Select(r) : r \in rows }
  /\ Len(results) = Cardinality(rows)
  /\ \A a, b \in 1 .. Len(results) :
       a < b => \/ results[a].date > results[b].date
                \/ /\ results[a].date = results[b].date
                   /\ TextLess(results[a].station, results[b].station)

\* C10 (as claimed): the search returns exactly the records whose fields equal
\* each non-empty filter as given in the request, by day descending and then
\* station ascending.
SearchExactFilters ==
  \A k \in 1 .. Len(reply) :
    ListsInOrder(reply[k].results,
                 Matching(catalog, ArgsGet(reply[k].args, "country"),
                          ArgsGet(reply[k].args, "station"),
                          ArgsGet(reply[k].args, "date")))

\* C10 (amended): the search returns exactly the records whose fields equal
\* each filter with its leading and trailing whitespace removed, a filter
\* that is then empty (or absent) matching everything, by day descending and
\* then station ascending.
SearchStrippedFilters ==
  \A k \in 1 .. Len(reply) :
    ListsInOrder(reply[k].results,
                 Matching(catalog, Strip(ArgsGet(reply[k].args, "country")),
                          Strip(ArgsGet(reply[k].args, "station")),
                          Strip(ArgsGet(reply[k].args, "date"))))

\* country=Peru over records of Norway, Germany and Peru returned the Peru
\* records, two of them, of different days
SearchStrippedFilters_witness ==
  /\ { r.country : r \in catalog } = { <<"Norway">>, <<"Germany">>, <<"Peru">> }
  /\ Len(reply) = 1
  /\ DOMAIN reply[1].args = {"country"}
  /\ reply[1].args["country"] = <<"Peru">>
  /\ Len(reply[1].results) = 2
  /\ \A k \in 1 .. 2 : reply[1].results[k].country = <<"Peru">>

(* ---------------------- archive records and files --------------------- *)
\* the record's file_path is archive/<station_key>/<day>/<image_name> and a
\* file exists there
OnDisk(r, arch) ==
  /\ r.file_path = ArchivePath(r.station_key, r.date, r.image_name)
  /\ <<r.station_key, r.date, r.image_name>> \in DOMAIN arch

\* a scan step deletes no archived file and no catalog record
ScanKeeps ==
  ScanStep =>
    /\ DOMAIN archive \subseteq DOMAIN archive'
    /\ \A r \in catalog : RowsFor(catalog', r.station_key, r.date) # {}

\* C11: in every state scan ticks can reach, ticks in which a copy or a
\* catalog write fails part-way included, the file_path of every Archive Record
\* names a file that exists under archive/<station_key>/<day>/ with the
\* record's station key, day and image name; and no scan deletes an archived
\* file or a catalog record.
RecordsNameArchivedFiles ==
  /\ [](\A r \in catalog : OnDisk(r, archive))
  /\ [][ScanKeeps]_vars

\* a scan met a fault and left an archived file no record names (the copy was
\* made, the catalog write failed), next to records of other days
RecordsNameArchivedFiles_witness ==
  /\ nfaults > 0 /\ status # "none"
  /\ catalog # {}
  /\ \E p \in DOMAIN archive :
       \A r \in catalog : <<r.station_key, r.date, r.image_name>> # p

(* ------------------------- claims on SpecConc -------------------------- *)
\* a row without its id
Fields(r) ==
  [image_name |-> r.image_name, country |-> r.country, station |-> r.station,
   date |-> r.date, station_key |-> r.station_key, file_path |-> r.file_path]

\* C9: while two scans overlap, the catalog never holds two records for one
\* (station key, day), no upsert raises a uniqueness violation, and the fields
\* of every record are those of one upsert that was executed.
OverlappingScansKeepCatalog ==
  /\ \A r1, r2 \in catalog :
       (r1.station_key = r2.station_key /\ r1.date = r2.date) => r1.id = r2.id
  /\ \A r1, r2 \in catalog : r1.id = r2.id => r1 = r2
  /\ \A p \in DOMAIN procs : "IntegrityError" \notin procs[p].err
  /\ \A r \in catalog : \E u \in issued : u[2] = Fields(r)

\* both scans are under way and each has upserted the same (station key, day),
\* with different image names
OverlappingScansKeepCatalog_witness ==
  /\ \A p \in DOMAIN procs : procs[p].pc \notin {"done", "aborted"}
  /\ \E u, v \in issued :
       /\ u[1] = 1 /\ v[1] = 2
       /\ u[2].station_key = v[2].station_key /\ u[2].date = v[2].date
       /\ u[2].image_name # v[2].image_name

====
